---- MODULE Spec2Model ----
(***************************************************************************)
(* A model of image_sequence.ImageSequence (src/image_sequence/__init__.py) *)
(* Python strings are TLA+ strings, read with Len, SubSeq and \o.  Frames   *)
(* are records [num, dec]: the integer part and the fraction as written     *)
(* (".25", or "" for an int), i.e. a Python int or an exact Decimal.        *)
(***************************************************************************)
EXTENDS Integers, Sequences, FiniteSets, TLC

VARIABLES seq, other, disk, op, ret, alias

vars == <<seq, other, disk, op, ret, alias>>

(***************************************************************************)
(* Bounds of the model.                                                     *)
(***************************************************************************)
\* longest list handed to the frames setter
MaxLen == 2
\* largest value handed to the padding setter
MaxPadding == 2
\* the largest width a path is rendered with and parsed back
MaxWidth == 10

(***************************************************************************)
(* Python string primitives.                                                *)
(***************************************************************************)
\* v = value; Rest(v): the statements after an assignment read the value
\* that was assigned
Assign(value, Rest(_)) == Rest(value)

\* s[i], 1-based; "" outside the string
Char(s, i) == IF 1 <= i /\ i <= Len(s) THEN SubSeq(s, i, i) ELSE ""

Drop(s, n) == SubSeq(s, n + 1, Len(s))

Min(S) == CHOOSE m \in S : \A n \in S : m <= n

Max(S) == CHOOSE m \in S : \A n \in S : m >= n

Digit == {"0", "1", "2", "3", "4", "5", "6", "7", "8", "9"}

Letter ==
  {"a", "b", "c", "d", "e", "f", "g", "h", "i", "j", "k", "l", "m",
   "n", "o", "p", "q", "r", "s", "t", "u", "v", "w", "x", "y", "z",
   "A", "B", "C", "D", "E", "F", "G", "H", "I", "J", "K", "L", "M",
   "N", "O", "P", "Q", "R", "S", "T", "U", "V", "W", "X", "Y", "Z"}

\* the regex class \w
Word == Digit \cup Letter \cup {"_"}

DigitVal(c) ==
  CASE c = "0" -> 0 [] c = "1" -> 1 [] c = "2" -> 2 [] c = "3" -> 3
    [] c = "4" -> 4 [] c = "5" -> 5 [] c = "6" -> 6 [] c = "7" -> 7
    [] c = "8" -> 8 [] c = "9" -> 9

DigitChar(d) == Char("0123456789", d + 1)

\* int(s) for a string of decimal digits
RECURSIVE StrToInt(_)
StrToInt(s) ==
  IF Len(s) = 0 THEN 0
  ELSE 10 * StrToInt(SubSeq(s, 1, Len(s) - 1)) + DigitVal(Char(s, Len(s)))

\* str(n) for an int
RECURSIVE IntToStr(_)
IntToStr(n) ==
  IF n < 0 THEN "-" \o IntToStr(0 - n)
  ELSE IF n < 10 THEN DigitChar(n)
  ELSE IntToStr(n \div 10) \o DigitChar(n % 10)

\* s * n
RECURSIVE Repeat(_, _)
Repeat(s, n) == IF n <= 0 THEN "" ELSE s \o Repeat(s, n - 1)

\* "%0<width>d" % n
ZeroPad(n, width) ==
  IF n < 0
  THEN "-" \o Repeat("0", width - 1 - Len(IntToStr(0 - n))) \o IntToStr(0 - n)
  ELSE Repeat("0", width - Len(IntToStr(n))) \o IntToStr(n)

StartsWith(s, prefix) ==
  Len(s) >= Len(prefix) /\ SubSeq(s, 1, Len(prefix)) = prefix

EndsWith(s, suffix) ==
  Len(s) >= Len(suffix) /\ SubSeq(s, Len(s) - Len(suffix) + 1, Len(s)) = suffix

\* str.replace(old, new): every non-overlapping occurrence, left to right; an
\* empty old matches before every character and at the end
RECURSIVE Replace(_, _, _)
Replace(s, old, new) ==
  IF old = ""
  THEN IF s = "" THEN new ELSE new \o Char(s, 1) \o Replace(Drop(s, 1), old, new)
  ELSE IF Len(s) < Len(old) THEN s
  ELSE IF StartsWith(s, old) THEN new \o Replace(Drop(s, Len(old)), old, new)
  ELSE Char(s, 1) \o Replace(Drop(s, 1), old, new)

\* the last index of the longest run of characters of S that starts at i
\* (i - 1 when the run is empty)
RunEnd(s, i, S) ==
  Min({j \in i..Len(s) : Char(s, j) \notin S} \cup {Len(s) + 1}) - 1

\* s.rfind("/"), 1-based, 0 when absent
LastSlash(s) == Max({j \in 1..Len(s) : Char(s, j) = "/"} \cup {0})

RECURSIVE RStripSlash(_)
RStripSlash(s) ==
  IF EndsWith(s, "/") THEN RStripSlash(SubSeq(s, 1, Len(s) - 1)) ELSE s

\* os.path.dirname (posixpath)
Dirname(p) ==
  Assign(SubSeq(p, 1, LastSlash(p)), LAMBDA head :
    IF head # "" /\ head # Repeat("/", Len(head)) THEN RStripSlash(head) ELSE head)

\* os.path.basename (posixpath)
Basename(p) == Drop(p, LastSlash(p))

\* os.path.join(a, b) (posixpath)
Join(a, b) ==
  IF StartsWith(b, "/") THEN b
  ELSE IF a = "" \/ EndsWith(a, "/") THEN a \o b
  ELSE a \o "/" \o b

\* s[i:].startswith(lit), 1-based
StartsWithAt(s, i, lit) ==
  i + Len(lit) - 1 <= Len(s) /\ SubSeq(s, i, i + Len(lit) - 1) = lit

(***************************************************************************)
(* _RE_FILENAME.match(basename), as the backtracking matcher runs it: the   *)
(* name, then the first frame alternative (in the order of the pattern,     *)
(* greedy choices first) after which the extension matches up to "$", and   *)
(* the extension alone when no alternative does.                            *)
(***************************************************************************)
NoMatch == [matched |-> FALSE]

\* "$": the end of the string, or just before a final newline
AtEnd(s, i) == i = Len(s) + 1 \/ (i = Len(s) /\ Char(s, i) = "\n")

\* (?P<ext>\.\w+(\.\w+)?)$ at index i: the index after ext, 0 when it fails
ExtEnd(s, i) ==
  IF Char(s, i) # "." THEN 0
  ELSE Assign(RunEnd(s, i + 1, Word), LAMBDA e1 :
       Assign(IF Char(s, e1 + 1) = "." THEN RunEnd(s, e1 + 2, Word) ELSE 0, LAMBDA e2 :
         IF e1 < i + 1 THEN 0
         ELSE IF e2 >= e1 + 2 /\ AtEnd(s, e2 + 1) THEN e2 + 1
         ELSE IF AtEnd(s, e1 + 1) THEN e1 + 1
         ELSE 0))

NoGroups ==
  [frame |-> "", float |-> "", token |-> "", udim |-> "", flame |-> "",
   padding |-> "", hip_frame |-> "", hip_padding |-> ""]

\* the ways the optional frame group can match at the dot at index p, in the
\* order the matcher tries them; next is the index after the group
FrameAlternatives(s, p) ==
  Assign(RunEnd(s, p + 1, Digit), LAMBDA d :
  Assign(IF Char(s, d + 1) = "." THEN RunEnd(s, d + 2, Digit) ELSE 0, LAMBDA f :
  Assign(RunEnd(s, p + 3, Digit), LAMBDA t :
  Assign(RunEnd(s, p + 2, Digit), LAMBDA a :
  Assign(IF Char(s, a + 1) = "-" THEN RunEnd(s, a + 2, Digit) ELSE 0, LAMBDA b :
  Assign(RunEnd(s, p + 1, {"#", "@"}), LAMBDA h :
  Assign(RunEnd(s, p + 2, {"f", "F"}), LAMBDA ho :
    LET frameFloat ==
          IF d >= p + 1 /\ f >= d + 2
          THEN << [NoGroups EXCEPT !.frame = SubSeq(s, p + 1, f),
                                   !.float = SubSeq(s, d + 1, f)] @@ [next |-> f + 1] >>
          ELSE << >>
        frameInt ==
          IF d >= p + 1
          THEN << [NoGroups EXCEPT !.frame = SubSeq(s, p + 1, d)] @@ [next |-> d + 1] >>
          ELSE << >>
        token ==
          IF StartsWithAt(s, p + 1, "%0") /\ t >= p + 3 /\ Char(s, t + 1) = "d"
          THEN << [NoGroups EXCEPT !.token = SubSeq(s, p + 3, t)] @@ [next |-> t + 2] >>
          ELSE << >>
        udim ==
          IF StartsWithAt(s, p + 1, "<UDIM>")
          THEN << [NoGroups EXCEPT !.udim = "<UDIM>"] @@ [next |-> p + 7] >>
          ELSE << >>
        flame ==
          IF Char(s, p + 1) = "[" /\ a >= p + 2 /\ b >= a + 2 /\ Char(s, b + 1) = "]"
          THEN << [NoGroups EXCEPT !.flame = SubSeq(s, p + 2, b)] @@ [next |-> b + 2] >>
          ELSE << >>
        padding ==
          IF h >= p + 1
          THEN << [NoGroups EXCEPT !.padding = SubSeq(s, p + 1, h)] @@ [next |-> h + 1] >>
          ELSE << >>
        hipDigit ==
          IF Char(s, p + 1) = "$" /\ ho >= p + 2 /\ Char(s, ho + 1) \in Digit
          THEN << [NoGroups EXCEPT !.hip_frame = SubSeq(s, p + 1, ho + 1),
                                   !.hip_padding = Char(s, ho + 1)] @@ [next |-> ho + 2] >>
          ELSE << >>
        hip ==
          IF Char(s, p + 1) = "$" /\ ho >= p + 2
          THEN << [NoGroups EXCEPT !.hip_frame = SubSeq(s, p + 1, ho)] @@ [next |-> ho + 1] >>
          ELSE << >>
    IN  IF Char(s, p) # "." THEN << >>
        ELSE frameFloat \o frameInt \o token \o udim \o flame \o padding
               \o hipDigit \o hip)))))))

RE_FILENAME_match(s) ==
  Assign(IF Char(s, 1) = "." THEN 1 ELSE 0, LAMBDA lead :
  Assign(Min({j \in (lead + 1)..Len(s) : Char(s, j) = "."} \cup {Len(s) + 1}) - 1,
       LAMBDA nameEnd :
  Assign(FrameAlternatives(s, nameEnd + 1) \o << NoGroups @@ [next |-> nameEnd + 1] >>,
       LAMBDA alts :
  Assign({k \in 1..Len(alts) : ExtEnd(s, alts[k].next) # 0}, LAMBDA good :
    IF nameEnd <= lead \/ good = {} THEN NoMatch
    ELSE Assign(alts[Min(good)], LAMBDA g :
           [matched |-> TRUE,
            name |-> SubSeq(s, 1, nameEnd),
            frame |-> g.frame, float |-> g.float, token |-> g.token,
            udim |-> g.udim, flame |-> g.flame, padding |-> g.padding,
            hip_frame |-> g.hip_frame, hip_padding |-> g.hip_padding,
            ext |-> SubSeq(s, g.next, ExtEnd(s, g.next) - 1)])))))

\* match.groupdict("")
GroupDict(m) ==
  [name |-> m.name, frame |-> m.frame, float |-> m.float, token |-> m.token,
   udim |-> m.udim, flame |-> m.flame, padding |-> m.padding,
   hip_frame |-> m.hip_frame, hip_padding |-> m.hip_padding, ext |-> m.ext]


(***************************************************************************)
(* Frames: int, or Decimal with the digits as written.                      *)
(***************************************************************************)
IntFrame(n) == [num |-> n, dec |-> ""]

\* str(frame)
FrameStr(f) == IntToStr(f.num) \o f.dec

\* repr(frame), as str(list) renders an element
FrameRepr(f) ==
  IF f.dec = "" THEN IntToStr(f.num) ELSE "Decimal('" \o FrameStr(f) \o "')"

\* str(frames) of a list
RECURSIVE ListStrTail(_)
ListStrTail(fs) ==
  IF fs = << >> THEN "" ELSE ", " \o FrameRepr(Head(fs)) \o ListStrTail(Tail(fs))

ListStr(fs) ==
  IF fs = << >> THEN "[]" ELSE "[" \o FrameRepr(Head(fs)) \o ListStrTail(Tail(fs)) \o "]"

\* hash(): taken to be free of collisions on the strings that occur
Hash(s) == s

\* the fraction digits of f scaled to w digits, as a number
FracScaled(f, w) ==
  LET digits == Drop(f.dec, 1)
  IN  StrToInt(digits \o Repeat("0", w - Len(digits)))

\* f < g and f == g as Python compares int and Decimal: by value
FrameLess(f, g) ==
  LET w == Max({Len(f.dec), Len(g.dec)})
  IN  f.num < g.num \/ (f.num = g.num /\ FracScaled(f, w) < FracScaled(g, w))

FrameEq(f, g) ==
  LET w == Max({Len(f.dec), Len(g.dec)})
  IN  f.num = g.num /\ FracScaled(f, w) = FracScaled(g, w)

\* list(set(fs)) keeps, of equal values, the one met first
RECURSIVE SetOfList(_, _)
SetOfList(fs, acc) ==
  IF fs = << >> THEN acc
  ELSE IF \E i \in 1..Len(acc) : FrameEq(acc[i], Head(fs))
       THEN SetOfList(Tail(fs), acc)
       ELSE SetOfList(Tail(fs), Append(acc, Head(fs)))

\* list.sort() of values that are pairwise different
RECURSIVE SortFrames(_)
SortFrames(fs) ==
  IF fs = << >> THEN << >>
  ELSE Assign(CHOOSE i \in 1..Len(fs) : \A j \in 1..Len(fs) : ~FrameLess(fs[j], fs[i]),
            LAMBDA i :
         <<fs[i]>> \o SortFrames(SubSeq(fs, 1, i - 1) \o SubSeq(fs, i + 1, Len(fs))))

(***************************************************************************)
(* class ImageSequence                                                      *)
(***************************************************************************)
BOOST == "%"
HASH == "#"
AT_SIGN == "@"
FLAME == "flame"
HOUDINI == "houdini"
HOUDINI_FF == "$FF"
UDIM == "<UDIM>"
FRAME_TOKEN == "<FRAME>"

\* float("inf"), above every padding of the model
Infinity == 1000000

\* pattern.format(**data)
RECURSIVE Format(_, _)
Format(pattern, data) ==
  IF pattern = "" THEN ""
  ELSE IF Char(pattern, 1) = "{"
  THEN LET close == Min({j \in 1..Len(pattern) : Char(pattern, j) = "}"})
       IN  data[SubSeq(pattern, 2, close - 1)] \o Format(Drop(pattern, close), data)
  ELSE Char(pattern, 1) \o Format(Drop(pattern, 1), data)

\* the condition under which a read of frames builds a new list
Stale(self) ==
  ~self._up_to_date \/ Hash(ListStr(self._frames)) # self._last_frame_hash

\* frames read with the up-to-date flag alone, not the hash of the list
frames_trusting_flag(self) ==
  IF ~self._up_to_date
  THEN Assign(SortFrames(SetOfList(self._frames, << >>)), LAMBDA sorted :
         [self EXCEPT !._frames = sorted,
                      !._last_frame_hash = Hash(ListStr(sorted)),
                      !._up_to_date = TRUE])
  ELSE self

\* the frames property, read: the object after the read; the list returned
\* is its _frames
frames(self) ==
  IF ~self._up_to_date \/ Hash(ListStr(self._frames)) # self._last_frame_hash
  THEN Assign(SortFrames(SetOfList(self._frames, << >>)), LAMBDA sorted :
         [self EXCEPT !._frames = sorted,
                      !._last_frame_hash = Hash(ListStr(sorted)),
                      !._up_to_date = TRUE])
  ELSE self

\* start() and end() read frames; the value returned
start(self) ==
  Assign(frames(self)._frames, LAMBDA fs : IF fs # << >> THEN fs[1] ELSE IntFrame(0))

end(self) ==
  Assign(frames(self)._frames, LAMBDA fs : IF fs # << >> THEN fs[Len(fs)] ELSE IntFrame(0))

_create_padding_format(self) ==
  IF self._padding_style = BOOST
  THEN [self EXCEPT !._data.frame = ".%0" \o IntToStr(self._padding) \o "d"]
  ELSE IF self._padding_style = FLAME
  THEN [frames(self) EXCEPT
          !._data.frame = ".[" \o FrameStr(start(self)) \o "-" \o FrameStr(end(self)) \o "]"]
  ELSE IF self._padding_style = HOUDINI_FF
  THEN [self EXCEPT !._data.frame = ".$FF"]
  ELSE IF self._padding_style = HOUDINI
  THEN [self EXCEPT !._data.frame =
          ".$F" \o (IF self._padding # 0 THEN IntToStr(self._padding) ELSE "")]
  ELSE IF self._padding_style = UDIM
  THEN [self EXCEPT !._data.frame = ".<UDIM>"]
  ELSE [self EXCEPT !._data.frame = "." \o Repeat(self._padding_style, self._padding)]

\* the padding setter storing the width without rendering the token again
padding_setter_keeping_token(self, value) ==
  IF value < 1
  THEN [self EXCEPT !._padding = value, !._data.frame = ""]
  ELSE [self EXCEPT !._padding = value]

\* padding.setter
padding_setter(self, value) ==
  IF value < 1
  THEN [self EXCEPT !._padding = value, !._data.frame = ""]
  ELSE _create_padding_format([self EXCEPT !._padding = value])

\* padding_style.setter
padding_style_setter(self, value) ==
  _create_padding_format([self EXCEPT !._padding_style = value])

\* frames.setter
frames_setter(self, value) ==
  LET s1 == [self EXCEPT !._up_to_date = FALSE, !._frames = value]
  IN  IF s1._padding_style = FLAME THEN _create_padding_format(s1) ELSE s1

\* name.setter and ext.setter
name_setter(self, value) == [self EXCEPT !._data.name = value]

ext_setter(self, value) == [self EXCEPT !._data.ext = value]

basename(self) == Format(self._pattern, self._data)

path(self) == Join(self.dirname, basename(self))

get_frame_token(self) == self._data.frame

ParseError(p) ==
  [raised |-> "ImageSequenceParseError", message |-> "Input path \"" \o p \o "\""]

Raised(o) == "raised" \in DOMAIN o

\* the two endpoints of a flame group, list(map(int, flame.split("-")))
FlameEndpoints(flame) ==
  LET dash == Min({j \in 1..Len(flame) : Char(flame, j) = "-"})
  IN  << IntFrame(StrToInt(SubSeq(flame, 1, dash - 1))),
         IntFrame(StrToInt(Drop(flame, dash))) >>

\* the padding of a frame literal with the fraction counted in
FramePaddingWholeLiteral(frame, float_value) == Len(frame)

\* len(frame.replace(float_value, "")), the padding of a frame literal
FramePadding(frame, float_value) == Len(Replace(frame, float_value, ""))

\* __init__(path, padding_style, _match); _match is NoMatch when not given
\* (a re.Match is always true)
__init__(p, padding_style, _match) ==
  Assign(IF _match.matched THEN _match ELSE RE_FILENAME_match(Basename(p)), LAMBDA match :
  Assign([_pattern |-> "{name}{frame}{ext}",
        _frames |-> << >>,
        _last_frame_hash |-> Hash(ListStr(<< >>)),
        _up_to_date |-> TRUE,
        _padding |-> 0,
        _padding_style |-> padding_style,
        dirname |-> Dirname(p),
        _data |-> IF match.matched THEN GroupDict(match) ELSE << >>], LAMBDA self :
  Assign(self._data, LAMBDA data :
    IF ~match.matched THEN ParseError(p)
    ELSE IF data.frame # ""
    THEN padding_setter(
           [self EXCEPT !._frames =
              Append(@, IF data.float # ""
                        THEN [num |-> StrToInt(SubSeq(data.frame, 1,
                                         Len(data.frame) - Len(data.float))),
                              dec |-> data.float]
                        ELSE IntFrame(StrToInt(data.frame)))],
           FramePadding(data.frame, data.float))
    ELSE IF data.token # ""
    THEN padding_setter(self, StrToInt(data.token))
    ELSE IF data.padding # ""
    THEN padding_setter(self, Len(data.padding))
    ELSE IF data.flame # ""
    THEN Assign(frames_setter(self, FlameEndpoints(data.flame)), LAMBDA s1 :
           padding_setter(frames(s1), Len(FrameStr(start(s1)))))
    ELSE IF data.hip_frame # ""
    THEN padding_setter(self,
           IF data.hip_padding # "" THEN StrToInt(data.hip_padding) ELSE 1)
    ELSE IF data.udim # ""
    THEN padding_setter(self, 4)
    ELSE self)))

\* the constructor taking the style from a flame, Houdini or UDIM segment
ImageSequence_with_style_of_token(p, padding_style) ==
  Assign(__init__(p, padding_style, NoMatch), LAMBDA self :
    IF Raised(self) THEN self
    ELSE IF self._data.flame # "" THEN padding_style_setter(self, FLAME)
    ELSE IF self._data.hip_frame # "" THEN padding_style_setter(self, HOUDINI)
    ELSE IF self._data.udim # "" THEN padding_style_setter(self, UDIM)
    ELSE self)

\* ImageSequence(path, padding_style)
ImageSequence(p, padding_style) == __init__(p, padding_style, NoMatch)

None == [none |-> TRUE]

\* new matching the whole path, not its basename
new_matching_whole_path(p, padding_style) ==
  Assign(RE_FILENAME_match(p), LAMBDA match :
    IF match.matched THEN __init__(p, padding_style, match) ELSE None)

\* ImageSequence.new(path, padding_style=...)
new(p, padding_style) ==
  Assign(RE_FILENAME_match(Basename(p)), LAMBDA match :
    IF match.matched THEN __init__(p, padding_style, match) ELSE None)


\* _RE_FLOAT_SUFFIX = (?P<decimal>\.\d+): the first match in s as
\* [at, end], at = 0 when there is none
RE_FLOAT_SUFFIX_search(s) ==
  Assign({j \in 1..Len(s) : Char(s, j) = "." /\ Char(s, j + 1) \in Digit}, LAMBDA hits :
    IF hits = {} THEN [at |-> 0, end |-> 0]
    ELSE [at |-> Min(hits), end |-> RunEnd(s, Min(hits) + 1, Digit)])

\* _RE_FLOAT_SUFFIX.sub("", s)
RECURSIVE RE_FLOAT_SUFFIX_sub(_)
RE_FLOAT_SUFFIX_sub(s) ==
  Assign(RE_FLOAT_SUFFIX_search(s), LAMBDA m :
    IF m.at = 0 THEN s
    ELSE SubSeq(s, 1, m.at - 1) \o RE_FLOAT_SUFFIX_sub(Drop(s, m.end)))

_format_frame(self, pth, frame, offset) ==
  Assign(FrameStr(frame), LAMBDA text :
  Assign(RE_FLOAT_SUFFIX_sub(text), LAMBDA number :
  Assign(RE_FLOAT_SUFFIX_search(text), LAMBDA m :
  Assign(IF m.at # 0 THEN SubSeq(text, m.at, m.end) ELSE "", LAMBDA decimal :
  Assign(ZeroPad(StrToInt(number) + offset, self._padding) \o decimal, LAMBDA frame_num :
    Replace(pth, FRAME_TOKEN, frame_num))))))

_get_path_for_formatting(self) ==
  LET data == IF self._data.frame # ""
              THEN [self._data EXCEPT !.frame = "." \o FRAME_TOKEN]
              ELSE self._data
  IN  Join(self.dirname, Format(self._pattern, data))

\* get_paths(offset): the list returned (the read of frames it makes leaves
\* the object as frames(self))
get_paths(self, offset) ==
  Assign(_get_path_for_formatting(self), LAMBDA pth :
  Assign(frames(self)._frames, LAMBDA fs :
    IF fs = << >> THEN <<pth>>
    ELSE [i \in 1..Len(fs) |-> _format_frame(self, pth, fs[i], offset)]))

eval_at_frame(self, frame) ==
  Assign(_get_path_for_formatting(self), LAMBDA pth :
    IF self._padding = 0 THEN pth ELSE _format_frame(self, pth, frame, 0))

abstract_path_representation(self) ==
  Replace(path(self), self._data.frame, "." \o FRAME_TOKEN)

__eq__(self, o) ==
  abstract_path_representation(self) = abstract_path_representation(o)

__hash__(self) == Hash(path(self))

\* merge adopting the larger padding
merge_larger_padding(self, o) ==
  Assign(frames(self), LAMBDA s1 :
  Assign(frames_setter(s1, s1._frames \o frames(o)._frames), LAMBDA s2 :
  Assign([s2 EXCEPT !._up_to_date = FALSE], LAMBDA s3 :
    IF o._padding > s3._padding THEN padding_setter(s3, o._padding) ELSE s3)))

\* merge(other): self after the call; other is left as frames(other), the
\* read of its frames
merge(self, o) ==
  Assign(frames(self), LAMBDA s1 :
  Assign(frames_setter(s1, s1._frames \o frames(o)._frames), LAMBDA s2 :
  Assign([s2 EXCEPT !._up_to_date = FALSE], LAMBDA s3 :
    IF o._padding < s3._padding THEN padding_setter(s3, o._padding) ELSE s3)))

\* __copy__(): the new object, or the error its constructor raised; self is
\* left as frames(self), and obj._frames is the list object of self
__copy__(self) ==
  Assign(ImageSequence(path(self), self._padding_style), LAMBDA obj :
    IF Raised(obj) THEN obj
    ELSE Assign(frames_setter([obj EXCEPT !._padding = self._padding],
                              frames(self)._frames), LAMBDA o1 :
           [o1 EXCEPT !._pattern = self._pattern]))

(***************************************************************************)
(* The file system: the directories that exist, those of them that cannot   *)
(* be listed, and the entries scandir yields, [dir, name, is_file].         *)
(***************************************************************************)
Exists(d, dir) == dir \in d.dirs

\* the error os.scandir raises on a directory that cannot be listed
PermissionError(dir) ==
  [raised |-> "PermissionError", message |-> "[Errno 13] Permission denied: '" \o dir \o "'"]

\* the loop of find_frames_on_disk over the entries in the order scandir
\* yielded them
RECURSIVE ScanLoop(_, _)
ScanLoop(self, entries) ==
  IF entries = << >> THEN self
  ELSE Assign(Head(entries), LAMBDA e :
       Assign(new(Join(e.dir, e.name), HASH), LAMBDA element :
         IF ~e.is_file THEN ScanLoop(self, Tail(entries))
         ELSE IF element = None THEN ScanLoop(self, Tail(entries))
         ELSE IF abstract_path_representation(self)
                   = abstract_path_representation(element)
              THEN ScanLoop(merge(self, element), Tail(entries))
              ELSE ScanLoop(self, Tail(entries))))

\* find_frames_on_disk that starts the minimum from the subject's padding
find_frames_on_disk_from_own_padding(self, d, entries) ==
  IF self.dirname = "" THEN [self |-> self, ret |-> FALSE]
  ELSE IF self._data.frame = "" THEN [self |-> self, ret |-> FALSE]
  ELSE IF ~Exists(d, self.dirname) THEN [self |-> self, ret |-> FALSE]
  ELSE IF self.dirname \in d.denied
  THEN [self |-> self, raised |-> PermissionError(self.dirname)]
  ELSE Assign(frames(ScanLoop(self, entries)), LAMBDA s3 :
         [self |-> s3, ret |-> s3._frames # << >>])

\* find_frames_on_disk(): [self, ret], or [self, raised] with the error
\* os.scandir raised, which nothing catches; entries is what os.scandir
\* yields
find_frames_on_disk(self, d, entries) ==
  IF self.dirname = "" THEN [self |-> self, ret |-> FALSE]
  ELSE IF self._data.frame = "" THEN [self |-> self, ret |-> FALSE]
  ELSE IF ~Exists(d, self.dirname) THEN [self |-> self, ret |-> FALSE]
  ELSE IF self.dirname \in d.denied
  THEN [self |-> [self EXCEPT !._padding = Infinity],
        raised |-> PermissionError(self.dirname)]
  ELSE Assign(self._padding, LAMBDA old_padding :
       Assign(ScanLoop([self EXCEPT !._padding = Infinity], entries), LAMBDA s1 :
       Assign(IF s1._padding = Infinity THEN padding_setter(s1, old_padding) ELSE s1,
            LAMBDA s2 :
       Assign(frames(s2), LAMBDA s3 :
         [self |-> s3, ret |-> s3._frames # << >>]))))


(***************************************************************************)
(* The inputs the actions draw from.                                        *)
(***************************************************************************)
Styles == {BOOST, HASH, AT_SIGN, FLAME, HOUDINI, HOUDINI_FF, UDIM, ">"}

\* frame values: an int, and decimals of which one equals the int in value
FrameValues == {IntFrame(2), [num |-> 1, dec |-> ".5"], [num |-> 2, dec |-> ".0"]}

\* every list of at most n frame values
ListsUpTo(n) == UNION {[1..k -> FrameValues] : k \in 0..n}

File(dir, name) == [dir |-> dir, name |-> name, is_file |-> TRUE]

Directory(dir, name) == [dir |-> dir, name |-> name, is_file |-> FALSE]

NoDisk == [dirs |-> {}, denied |-> {}, entries |-> {}]

\* files of the family /mock/file.<frame>.exr with paddings 2 and 3, and a
\* directory named like one
DiskOfFrames ==
  [dirs |-> {"/mock", "/mock/file.1.exr"}, denied |-> {},
   entries |-> {File("/mock", "file.02.exr"), File("/mock", "file.001.5.exr"),
                Directory("/mock", "file.1.exr")}]

\* two files of the family, of paddings 2 and 3
DiskOfTwo ==
  [dirs |-> {"/mock"}, denied |-> {},
   entries |-> {File("/mock", "file.02.exr"), File("/mock", "file.001.5.exr")}]

\* one file of the family
DiskOfOne ==
  [dirs |-> {"/mock"}, denied |-> {}, entries |-> {File("/mock", "file.02.exr")}]

\* two files of the family whose frames are equal in value, an int and a
\* decimal
DiskOfEqual ==
  [dirs |-> {"/mock"}, denied |-> {},
   entries |-> {File("/mock", "file.2.exr"), File("/mock", "file.2.0.exr")}]

\* a directory that exists and cannot be listed
DiskDenied ==
  [dirs |-> {"/mock"}, denied |-> {"/mock"}, entries |-> {File("/mock", "file.02.exr")}]

\* no file of the family: another name, no frame, no extension
DiskOfOthers ==
  [dirs |-> {"/mock"}, denied |-> {},
   entries |-> {File("/mock", "other.1.exr"), File("/mock", "file.exr"),
                File("/mock", "notes")}]

\* os.scandir(dir): the entries of dir, in any order
Orders(S) ==
  {o \in [1..Cardinality(S) -> S] : \A i, j \in 1..Cardinality(S) : o[i] = o[j] => i = j}

Scandir(d, dir) == Orders({e \in d.entries : e.dir = dir})

\* os.path.exists(p): a directory, or an entry of one
PathExists(d, p) == p \in d.dirs \/ \E e \in d.entries : Join(e.dir, e.name) = p

\* find_sequence_on_disk(path, padding_style=...): the sequence, None, or
\* the error find_frames_on_disk raised; entries is what os.scandir yields
find_sequence_on_disk(p, padding_style, d, entries) ==
  Assign(new(p, padding_style), LAMBDA s :
    IF s = None THEN None
    ELSE Assign(find_frames_on_disk(s, d, entries), LAMBDA r :
           IF Raised(r) THEN r.raised
           ELSE IF r.ret \/ PathExists(d, path(r.self)) THEN r.self
           ELSE None))

(***************************************************************************)
(* The state machine: seq is the sequence the caller works on, other a      *)
(* second sequence it merges in and compares with, disk the file system;    *)
(* op is the last call made and ret what it returned.  alias tells whether  *)
(* seq._frames and other._frames are one list object, as they are after     *)
(* other = copy.copy(seq): what is appended to one is then in the other,    *)
(* until a read of frames or an assignment gives one of them a new list.    *)
(***************************************************************************)
Call(name, arg) == [name |-> name, arg |-> arg]

\* the arguments of a call that parses a path
Args(p, padding_style) == [path |-> p, padding_style |-> padding_style]

InitWith(paths, styles, others, disks) ==
  /\ \E p \in paths, st \in styles : seq = ImageSequence(p, st)
  /\ \E p \in others : other = ImageSequence(p, HASH)
  /\ disk \in disks
  /\ op = Call("__init__", "")
  /\ ret = None
  /\ alias = FALSE

\* a call on self that assigns no list itself gave self a new list exactly
\* when a read of frames found the list stale
NewList(self, after) == Stale(self) /\ ~Stale(after)

\* seq.padding = value
SetPadding(value) ==
  /\ seq' = padding_setter(seq, value)
  /\ op' = Call("padding", value)
  /\ ret' = None
  /\ alias' = (alias /\ ~NewList(seq, seq'))
  /\ UNCHANGED <<other, disk>>

\* seq.padding_style = value
SetPaddingStyle(value) ==
  /\ seq' = padding_style_setter(seq, value)
  /\ op' = Call("padding_style", value)
  /\ ret' = None
  /\ alias' = (alias /\ ~NewList(seq, seq'))
  /\ UNCHANGED <<other, disk>>

\* seq.frames = value, a list of the caller
SetFrames(value) ==
  /\ seq' = frames_setter(seq, value)
  /\ op' = Call("frames.setter", value)
  /\ ret' = None
  /\ alias' = FALSE
  /\ UNCHANGED <<other, disk>>

\* seq.frames.append(frame): a read of frames, then an append to the list
\* it returned, which is the object's own list, and that of other as well
\* when the read left the two aliased
AppendFrame(frame) ==
  /\ seq' = [frames(seq) EXCEPT !._frames = Append(@, frame)]
  /\ op' = Call("frames.append", frame)
  /\ ret' = None
  /\ alias' = (alias /\ ~Stale(seq))
  /\ other' = IF alias' THEN [other EXCEPT !._frames = Append(@, frame)] ELSE other
  /\ UNCHANGED disk

\* seq.frames; op keeps the list that was stored when it was read
ReadFrames ==
  /\ seq' = frames(seq)
  /\ op' = Call("frames", seq._frames)
  /\ ret' = seq'._frames
  /\ alias' = (alias /\ ~Stale(seq))
  /\ UNCHANGED <<other, disk>>

\* seq.name = value
SetName(value) ==
  /\ seq' = name_setter(seq, value)
  /\ op' = Call("name", value)
  /\ ret' = None
  /\ UNCHANGED <<other, disk, alias>>

\* seq.ext = value
SetExt(value) ==
  /\ seq' = ext_setter(seq, value)
  /\ op' = Call("ext", value)
  /\ ret' = None
  /\ UNCHANGED <<other, disk, alias>>

\* seq.merge(other); op keeps the padding seq had before the call.  The
\* frames of seq, then those of other are read, and the list of seq is
\* extended in place (with itself, when the reads left the two aliased);
\* under the flame style the setter then reads it into a new list
Merge ==
  /\ seq' = merge(seq, other)
  /\ other' = IF alias /\ ~Stale(seq) /\ ~Stale(other)
              THEN [other EXCEPT !._frames = @ \o @]
              ELSE frames(other)
  /\ op' = Call("merge", seq._padding)
  /\ ret' = None
  /\ alias' = (alias /\ ~Stale(seq) /\ ~Stale(other) /\ seq._padding_style # FLAME)
  /\ UNCHANGED disk

\* whether find_frames_on_disk gets as far as its loop
Scans(self, d) ==
  /\ self.dirname # ""
  /\ self._data.frame # ""
  /\ Exists(d, self.dirname)
  /\ self.dirname \notin d.denied

\* the sequences the loop of find_frames_on_disk merges into self, in the
\* order of the entries
RECURSIVE Merged(_, _)
Merged(self, entries) ==
  IF entries = << >> THEN << >>
  ELSE Assign(Head(entries), LAMBDA e :
       Assign(new(Join(e.dir, e.name), HASH), LAMBDA element :
         IF e.is_file /\ element # None
              /\ abstract_path_representation(self) = abstract_path_representation(element)
         THEN <<element>> \o Merged(self, Tail(entries))
         ELSE Merged(self, Tail(entries))))

\* seq.find_frames_on_disk(); op keeps the padding seq had before the call,
\* and ret is the error when the call raised one.
\* When seq and other are aliased and the first read of the frames of seq
\* keeps its list, the first merge of the loop extends that list in place,
\* which is the list of other too; every later read of the frames of seq,
\* the one of the return value at the latest, finds the list stale
FindFramesOnDisk ==
  \E entries \in Scandir(disk, seq.dirname) :
    \E r \in {find_frames_on_disk(seq, disk, entries)} :
      \E merged \in {IF alias /\ ~Stale(seq) /\ Scans(seq, disk)
                      THEN Merged(seq, entries) ELSE << >>} :
        /\ seq' = r.self
        /\ op' = Call("find_frames_on_disk", seq._padding)
        /\ ret' = IF Raised(r) THEN r.raised ELSE r.ret
        /\ other' = IF merged # << >>
                    THEN [other EXCEPT !._frames = @ \o frames(merged[1])._frames]
                    ELSE other
        /\ alias' = (alias /\ (Scans(seq, disk) => (~Stale(seq) /\ merged = << >>)))
        /\ UNCHANGED disk

\* other = copy.copy(seq); when the constructor called first raises, ret is
\* the error and nothing else has changed.  obj.frames = self.frames gives
\* the copy the list object of seq; under the flame style the setter reads
\* it at once into a list of its own
Copy ==
  \E obj \in {__copy__(seq)} :
    /\ seq' = IF Raised(obj) THEN seq ELSE frames(seq)
    /\ other' = IF Raised(obj) THEN other ELSE obj
    /\ op' = Call("__copy__", seq._frames)
    /\ ret' = IF Raised(obj) THEN obj ELSE None
    /\ alias' = IF Raised(obj) THEN alias ELSE seq._padding_style # FLAME
    /\ UNCHANGED disk

\* ret = find_sequence_on_disk(p, padding_style=padding_style)
FindSequenceOnDisk(p, padding_style) ==
  \E entries \in Scandir(disk, Dirname(p)) :
    /\ ret' = find_sequence_on_disk(p, padding_style, disk, entries)
    /\ op' = Call("find_sequence_on_disk", Args(p, padding_style))
    /\ UNCHANGED <<seq, other, disk, alias>>

\* other.frames
ReadOther ==
  /\ other' = frames(other)
  /\ op' = Call("other.frames", other._frames)
  /\ ret' = other'._frames
  /\ alias' = (alias /\ ~Stale(other))
  /\ UNCHANGED <<seq, disk>>

(***************************************************************************)
(* Spec: every mutator of a sequence.                                       *)
(***************************************************************************)
Init ==
  InitWith({"/mock/file.###.exr", "/mock/file.exr"}, {HASH},
           {"/mock/file.2.exr", "/mock/dir/file.01.5.exr"}, {DiskOfTwo})

Next ==
  \/ \E value \in 0..MaxPadding : SetPadding(value)
  \/ \E value \in Styles : SetPaddingStyle(value)
  \/ \E value \in {<< >>, <<IntFrame(2), [num |-> 1, dec |-> ".5"]>>} : SetFrames(value)
  \/ SetName("g")
  \/ SetExt(".jpg")
  \/ Merge
  \/ FindFramesOnDisk
  \/ ReadFrames

Spec == Init /\ [][Next]_vars

(***************************************************************************)
(* SpecFrames: the mutations of the frame list, on sequences of several     *)
(* paddings and of a style that renders the frames (flame) or does not.     *)
(***************************************************************************)
InitFrames ==
  InitWith({"/mock/file.###.exr", "/mock/file.#.exr", "/mock/file.exr"}, {HASH, FLAME},
           {"/mock/file.2.exr", "/mock/file.0001.5.exr"}, {DiskOfFrames, DiskOfOthers})

NextFrames ==
  \/ \E value \in ListsUpTo(MaxLen) : SetFrames(value)
  \/ \E frame \in FrameValues : AppendFrame(frame)
  \/ Merge
  \/ FindFramesOnDisk
  \/ ReadFrames

SpecFrames == InitFrames /\ [][NextFrames]_vars

(***************************************************************************)
(* SpecCopy: a sequence, a copy taken of it at any point, and the mutators  *)
(* of the sequence after that.                                              *)
(***************************************************************************)
CopyStyles == {HASH, FLAME, ">"}

InitCopy ==
  InitWith({"/mock/file.1.exr"}, {HASH}, {"/mock/file.2.exr"}, {DiskOfOne})

NextCopy ==
  \/ Copy
  \/ ReadOther
  \/ SetPadding(MaxPadding)
  \/ \E value \in CopyStyles : SetPaddingStyle(value)
  \/ SetFrames(<<IntFrame(2), [num |-> 1, dec |-> ".5"]>>)
  \/ AppendFrame(IntFrame(2))
  \/ SetName("g")
  \/ SetExt(".jpg")
  \/ Merge
  \/ FindFramesOnDisk

SpecCopy == InitCopy /\ [][NextCopy]_vars

(***************************************************************************)
(* SpecParse: the constructor and the factory on paths of every frame       *)
(* alternative of the grammar, and on paths the grammar rejects.            *)
(***************************************************************************)
ParsePaths ==
  {"/mock/file.exr", "/mock/.hidden.mov", "/mock/file.1001.exr",
   "/mock/file.0010.25.exr", "file.12.5", "/mock/file.%04d.exr",
   "/mock/file.%00d.exr", "/mock/file.%010d.exr", "/mock/file.###.exr",
   "/mock/file.#@#.bgeo.sc", "/a.#/f.#.exr", "/mock/file.$F.exr",
   "/mock/file.$f3.exr", "/mock/file.$F0.exr", "/mock/file.$FF.exr",
   "/mock/file.<UDIM>.exr", "/mock/file.[1001-1089].exr",
   "/mock/file.[0010-0003].exr",
   "", "/mock/file", "/mock/file.%04d", "/mock/file.$F12.exr",
   "/mock/a.b.c.d.exr", "/mock/..exr"}

ParseStyles == {HASH, BOOST, FLAME, UDIM}

\* a variable no call has assigned yet
Unset == [unset |-> TRUE]

\* the caller's arguments, kept in op.arg
InitParse ==
  /\ seq = Unset
  /\ other = Unset
  /\ disk = NoDisk
  /\ \E p \in ParsePaths, st \in ParseStyles : op = Call("", Args(p, st))
  /\ ret = None
  /\ alias = FALSE

\* seq = ImageSequence(path, padding_style), which may raise
Construct ==
  /\ seq = Unset
  /\ seq' = ImageSequence(op.arg.path, op.arg.padding_style)
  /\ op' = Call("__init__", op.arg)
  /\ UNCHANGED <<other, disk, ret, alias>>

\* other = ImageSequence.new(path, padding_style=padding_style)
New ==
  /\ other = Unset
  /\ other' = new(op.arg.path, op.arg.padding_style)
  /\ op' = Call("new", op.arg)
  /\ UNCHANGED <<seq, disk, ret, alias>>

NextParse ==
  \/ Construct
  \/ New

SpecParse == InitParse /\ [][NextParse]_vars

(***************************************************************************)
(* SpecRound: a sequence is given a style and a width, and its path is      *)
(* parsed back with that style.                                             *)
(***************************************************************************)
RoundPaths ==
  {"/mock/file.7.exr", "/mock/.hidden.%03d.mov", "/a.#/f.@@.bgeo.sc", "file.12.5"}

InitRound == InitWith(RoundPaths, {HASH}, {"/mock/file.2.exr"}, {NoDisk})

\* ret = ImageSequence(seq.path, seq.padding_style), or the error it raised
Reparse ==
  /\ ret' = ImageSequence(path(seq), seq._padding_style)
  /\ op' = Call("ImageSequence", Args(path(seq), seq._padding_style))
  /\ UNCHANGED <<seq, other, disk, alias>>

NextRound ==
  \/ \E value \in Styles : SetPaddingStyle(value)
  \/ \E value \in 1..MaxWidth : SetPadding(value)
  \/ Reparse

SpecRound == InitRound /\ [][NextRound]_vars

(***************************************************************************)
(* SpecDisk: the scans of a directory that holds no file of the family,     *)
(* files of equal frame value, that cannot be listed, or does not exist.    *)
(***************************************************************************)
DiskPaths ==
  {"/mock/file.1.exr", "/mock/file.#.exr", "/mock/file.exr", "/mock/notes",
   "/mock/file.02.exr", "file.1.exr"}

InitDisk ==
  InitWith({"/mock/file.1.exr", "/mock/file.###.exr", "/mock/file.exr", "file.1.exr"},
           {HASH, FLAME}, {"/mock/file.2.exr"},
           {DiskOfOthers, DiskOfOne, DiskOfEqual, DiskDenied, NoDisk})

NextDisk ==
  \/ FindFramesOnDisk
  \/ \E p \in DiskPaths : FindSequenceOnDisk(p, HASH)

SpecDisk == InitDisk /\ [][NextDisk]_vars

(***************************************************************************)
(* The properties checked.                                                  *)
(***************************************************************************)
\* the value of a frame, whatever its type and its trailing zeros
RECURSIVE StripZeros(_)
StripZeros(digits) ==
  IF EndsWith(digits, "0") THEN StripZeros(SubSeq(digits, 1, Len(digits) - 1)) ELSE digits

ValueOf(f) == [num |-> f.num, frac |-> StripZeros(Drop(f.dec, 1))]

Values(fs) == {ValueOf(fs[i]) : i \in 1..Len(fs)}

StrictlyAscending(fs) == \A i \in 1..(Len(fs) - 1) : FrameLess(fs[i], fs[i + 1])

\* the path with the digits of frame f, shifted by offset, in the frame slot
PathAtFrame(self, f, offset) ==
  IF get_frame_token(self) = "" THEN path(self)
  ELSE Join(self.dirname,
            Format(self._pattern,
                   [self._data EXCEPT !.frame =
                      "." \o ZeroPad(f.num + offset, self._padding) \o f.dec]))

\* the path without any frame segment
PathWithoutToken(self) ==
  Join(self.dirname, Format(self._pattern, [self._data EXCEPT !.frame = ""]))

\* C1: the frame token is empty exactly when padding is 0, unless the style
\* is UDIM, flame or $FF
C1_TokenEmptyIffPaddingZero ==
  seq._padding_style \notin {UDIM, FLAME, HOUDINI_FF}
    => (get_frame_token(seq) = "" <=> seq._padding = 0)

\* C2: a read of frames returns a strictly ascending list (so without
\* duplicates) of exactly the values that were stored
C2_ReadIsSortedDistinct ==
  op.name = "frames" => StrictlyAscending(ret) /\ Values(ret) = Values(op.arg)

\* C2 witness: a read of a stored list that was out of order and held a
\* value twice
C2_Witness ==
  /\ op.name = "frames"
  /\ ~StrictlyAscending(op.arg)
  /\ Len(ret) >= 2
  /\ Len(op.arg) > Len(ret)

\* C3: merging a sequence of the same abstract path leaves seq with the
\* union of the frames and the smaller padding, and other as it was
C3_MergeUnionAndSmallerPadding ==
  [][(op'.name = "merge" /\ __eq__(seq, other))
       => /\ Values(frames(seq')._frames)
               = Values(frames(seq)._frames) \cup Values(frames(other)._frames)
          /\ seq'._padding = Min({seq._padding, other._padding})
          /\ frames(other')._frames = frames(other)._frames
          /\ other'._padding = other._padding]_vars

\* C3 witness: a merge that lowered the padding of seq and left it with
\* several frames
C3_Witness ==
  /\ op.name = "merge"
  /\ __eq__(seq, other)
  /\ op.arg > seq._padding
  /\ seq._padding = other._padding
  /\ Len(frames(seq)._frames) >= 2

\* the sequences of the regular files of the directory of self that parse
\* to its abstract path
MatchingFiles(self, d) ==
  LET parsed == {new(Join(e.dir, e.name), HASH) :
                   e \in {e \in d.entries : e.dir = self.dirname /\ e.is_file}}
  IN  {m \in parsed :
         m # None /\ abstract_path_representation(m) = abstract_path_representation(self)}

C5_EqIffSameFamily ==
  __eq__(seq, other)
    <=> /\ seq.dirname = other.dirname
        /\ seq._data.name = other._data.name
        /\ seq._data.ext = other._data.ext

\* C6: the constructor raises exactly when new returns None, with the path
\* in the message; on a basename of the grammar both give the same populated
\* sequence
C6_ConstructorAgreesWithNew ==
  (seq # Unset /\ other # Unset)
    => /\ Raised(seq) <=> other = None
       /\ Raised(seq) <=> ~RE_FILENAME_match(Basename(op.arg.path)).matched
       /\ Raised(seq) => seq.message = "Input path \"" \o op.arg.path \o "\""
       /\ ~Raised(seq)
            => /\ seq._data.name # "" /\ seq._data.ext # ""
               /\ seq.dirname = Dirname(op.arg.path)
               /\ other._data.name = seq._data.name
               /\ other._data.ext = seq._data.ext
               /\ other._padding = seq._padding
               /\ get_frame_token(other) = get_frame_token(seq)
               /\ frames(other)._frames = frames(seq)._frames

\* C6 witness: the constructor raised and new returned None on one path
C6_Witness ==
  /\ seq # Unset
  /\ other = None
  /\ Raised(seq)

\* the frames the formatting properties are read at
EvalFrames == {IntFrame(7), [num |-> 12, dec |-> ".50"]}

\* C7: eval_at_frame returns path when padding is 0, and otherwise the path
\* with the integer part padded to the padding, then the fraction as written
C7_EvalAtFrame ==
  \A f \in EvalFrames :
    eval_at_frame(seq, f)
      = IF seq._padding = 0 THEN path(seq) ELSE PathAtFrame(seq, f, 0)

\* C8: get_paths returns the one path (with or without the token) when
\* there are no frames, and otherwise one path per frame, ascending, with
\* the offset added to the integer part
C8_GetPaths ==
  \A offset \in {0, 15} :
    LET fs == frames(seq)._frames
    IN  IF fs = << >>
        THEN get_paths(seq, offset) \in {<<path(seq)>>, <<PathWithoutToken(seq)>>}
        ELSE /\ StrictlyAscending(fs)
             /\ get_paths(seq, offset) = [i \in 1..Len(fs) |-> PathAtFrame(seq, fs[i], offset)]

\* the padding the grammar gives the frame segment of a basename
PaddingOfSegment(m) ==
  IF m.frame # "" THEN RunEnd(m.frame, 1, Digit)
  ELSE IF m.token # "" THEN StrToInt(m.token)
  ELSE IF m.padding # "" THEN Len(m.padding)
  ELSE IF m.hip_frame # "" THEN (IF m.hip_padding # "" THEN DigitVal(m.hip_padding) ELSE 1)
  ELSE 0

\* C9: after construction padding is the width of the alternative that
\* matched: the integer digits of a literal, N of %0Nd, the length of a run
\* of # or @, the digit of $F (1 without one), 0 without a frame segment
C9_PaddingOfAlternative ==
  (seq # Unset /\ ~Raised(seq) /\ seq._data.flame = "" /\ seq._data.udim = "")
    => seq._padding = PaddingOfSegment(RE_FILENAME_match(Basename(op.arg.path)))

\* C9 witness: a decimal literal of four integer digits was parsed
C9_Witness ==
  /\ seq # Unset
  /\ ~Raised(seq)
  /\ seq._data.float # ""
  /\ seq._padding = 4

\* C10: a parsed <UDIM> gives padding 4 and no frames, and the assignment
\* padding_style = UDIM gives padding 4 and the token <UDIM>
C10_UdimPaddingIsFour ==
  /\ (op.name = "__init__" /\ seq._data.udim # "")
       => (seq._padding = 4 /\ frames(seq)._frames = << >>)
  /\ (op.name = "padding_style" /\ op.arg = UDIM)
       => (seq._padding = 4 /\ get_frame_token(seq) = ".<UDIM>")

\* the style a flame, Houdini or UDIM segment declares; "" for the others
StyleOfToken(data) ==
  IF data.flame # "" THEN FLAME
  ELSE IF data.hip_frame # ""
  THEN (IF Len(data.hip_frame) > 2 THEN HOUDINI_FF ELSE HOUDINI)
  ELSE IF data.udim # "" THEN UDIM
  ELSE ""

\* C11 as stated: a constructed sequence has the style its flame, Houdini or
\* UDIM segment declares, whatever the caller passed, and the caller's style
\* for every other segment
C11_TokenForcesStyle ==
  (seq # Unset /\ ~Raised(seq))
    => seq._padding_style
         = IF StyleOfToken(seq._data) # "" THEN StyleOfToken(seq._data)
           ELSE op.arg.padding_style

\* C11 amended: a constructed sequence has the style the caller passed,
\* whatever segment was parsed, and its token is the one that style renders
C11_StyleIsTheCallers ==
  (seq # Unset /\ ~Raised(seq))
    => /\ seq._padding_style = op.arg.padding_style
       /\ (get_frame_token(seq) # "")
            => get_frame_token(seq) = get_frame_token(_create_padding_format(seq))

\* C11 witness: a flame range, a Houdini token and <UDIM> were each parsed
\* into a sequence of another style; here the flame range under hash
C11_Witness ==
  /\ seq # Unset
  /\ ~Raised(seq)
  /\ seq._data.flame # ""
  /\ seq._padding_style = HASH
  /\ get_frame_token(seq) = ".####"

\* what a caller can read of a sequence
Observed(self) ==
  [name |-> self._data.name, ext |-> self._data.ext, padding |-> self._padding,
   path |-> path(self), frames |-> frames(self)._frames]

\* C12: a mutation of seq (name, ext, padding, padding_style, frames
\* assigned, frames appended to, merge) leaves name, ext, padding, path and
\* frames of other, its copy, as they were
C12_MutationLeavesTheCopy ==
  [][op'.name \in {"name", "ext", "padding", "padding_style", "frames.setter",
                   "frames.append", "merge"}
       => Observed(other') = Observed(other)]_vars

\* C13: copy.copy(seq) does not raise, and the copy has the path, padding,
\* style, pattern, frames and paths of seq
C13_CopyEqualsOriginal ==
  op.name = "__copy__"
    => /\ ret = None
       /\ path(other) = path(seq)
       /\ other._padding = seq._padding
       /\ other._padding_style = seq._padding_style
       /\ other._pattern = seq._pattern
       /\ frames(other)._frames = frames(seq)._frames
       /\ get_paths(other, 0) = get_paths(seq, 0)

\* the parse of the path of seq gave its padding and its path back
RoundTrip == ~Raised(ret) /\ ret._padding = seq._padding /\ path(ret) = path(seq)

\* C14 as stated: under each of the styles printf, hash, at-sign, UDIM,
\* flame and Houdini and with every width >= 1, the path of a sequence
\* parses back, with that style, to the same padding and the same path
C14_RoundTripOfEveryStyle ==
  (/\ op.name = "ImageSequence"
   /\ seq._padding >= 1
   /\ seq._padding_style \in {BOOST, HASH, AT_SIGN, UDIM, FLAME, HOUDINI})
    => RoundTrip

\* C14 amended: the round trip holds under the styles whose token carries
\* the width: printf, hash and at-sign with every width >= 1, and Houdini
\* with the widths 1 to 9 of its single digit
C14_RoundTripOfWidthStyles ==
  (/\ op.name = "ImageSequence"
   /\ seq._padding >= 1
   /\ \/ seq._padding_style \in {BOOST, HASH, AT_SIGN}
      \/ seq._padding_style = HOUDINI /\ seq._padding <= 9)
    => RoundTrip

\* C14 witness: a printf path of a width of two digits was parsed back
C14_Witness ==
  /\ op.name = "ImageSequence"
  /\ seq._padding_style = BOOST
  /\ seq._padding >= 10
  /\ ~Raised(ret)
  /\ ret._padding = seq._padding

\* the scan of the directory of self meets a file of its family that
\* carries a frame
FrameFilesFound(self, d) ==
  /\ self.dirname # ""
  /\ get_frame_token(self) # ""
  /\ Exists(d, self.dirname)
  /\ \E m \in MatchingFiles(self, d) : m._frames # << >>

\* os.path.isfile(p)
IsFile(d, p) == \E e \in d.entries : e.is_file /\ Join(e.dir, e.name) = p

\* C15: find_sequence_on_disk returns a sequence when the path parses and
\* the directory holds a frame file of it or its rendered path is a file,
\* and None in every other case
C15_FoundIffOnDisk ==
  op.name = "find_sequence_on_disk"
    => Assign(new(op.arg.path, op.arg.padding_style), LAMBDA s :
         IF s # None /\ (FrameFilesFound(s, disk) \/ IsFile(disk, path(s)))
         THEN ret # None /\ ~Raised(ret)
         ELSE ret = None)

\* C16: find_frames_on_disk returns true exactly when the scan met a frame
\* file of the sequence, whatever frames the sequence held before
C16_TrueIffFilesFound ==
  [][op'.name = "find_frames_on_disk" => (ret' <=> FrameFilesFound(seq, disk))]_vars

\* C19: when the directory is missing or cannot be listed,
\* find_frames_on_disk leaves padding, frames and path as they were and
\* returns false
C19_ListingFailureIsNoFrames ==
  [][(/\ op'.name = "find_frames_on_disk"
      /\ seq.dirname # ""
      /\ get_frame_token(seq) # ""
      /\ ~Exists(disk, seq.dirname) \/ seq.dirname \in disk.denied)
       => /\ seq'._padding = seq._padding
          /\ frames(seq')._frames = frames(seq)._frames
          /\ path(seq') = path(seq)
          /\ ret' = FALSE]_vars

\* C20: whatever the order of the entries, find_frames_on_disk ends with
\* the same frames in value, the same padding, the same path and the same
\* return value
C20_OrderOfEntriesIsIrrelevant ==
  [][op'.name = "find_frames_on_disk"
       => \A entries \in Scandir(disk, seq.dirname) :
            Assign(find_frames_on_disk(seq, disk, entries), LAMBDA r :
              /\ r.self._padding = seq'._padding
              /\ path(r.self) = path(seq')
              /\ Values(frames(r.self)._frames) = Values(frames(seq')._frames)
              /\ IF Raised(r) THEN r.raised = ret' ELSE r.ret = ret')]_vars

\* the frames of a list that none is below, and those that none is above
Smallest(fs) ==
  {fs[i] : i \in {i \in 1..Len(fs) : \A j \in 1..Len(fs) : ~FrameLess(fs[j], fs[i])}}

Largest(fs) ==
  {fs[i] : i \in {i \in 1..Len(fs) : \A j \in 1..Len(fs) : ~FrameLess(fs[i], fs[j])}}

\* [s-e] for the endpoints of a frame list, [0-0] for the empty one
FlameRanges(fs) ==
  IF fs = << >> THEN {"[0-0]"}
  ELSE {"[" \o FrameStr(s) \o "-" \o FrameStr(e) \o "]" :
          s \in Smallest(fs), e \in Largest(fs)}

Contains(s, sub) == \E i \in 1..Len(s) : StartsWithAt(s, i, sub)

\* C17: under the flame style, once the frame list has changed (frames
\* assigned or appended to, merge, find_frames_on_disk) path holds [s-e]
\* with the smallest and the largest frame, [0-0] without frames
C17_FlameTokenFollowsFrames ==
  [][(/\ op'.name \in {"frames.setter", "frames.append", "merge", "find_frames_on_disk"}
      /\ seq'._padding_style = FLAME
      /\ Values(seq'._frames) # Values(seq._frames))
       => \E range \in FlameRanges(seq'._frames) : Contains(path(seq'), range)]_vars

\* the two numbers of a flame group as they are written
FirstEndpoint(flame) ==
  SubSeq(flame, 1, Min({j \in 1..Len(flame) : Char(flame, j) = "-"}) - 1)

SecondEndpoint(flame) ==
  Drop(flame, Min({j \in 1..Len(flame) : Char(flame, j) = "-"}))

\* C18: a parsed flame range [A-B] gives the frames A and B and no other,
\* and the padding is the number of digits A is written with
C18_FlameRangeParsed ==
  (seq # Unset /\ ~Raised(seq) /\ seq._data.flame # "")
    => /\ Values(frames(seq)._frames)
            = {ValueOf(IntFrame(StrToInt(FirstEndpoint(seq._data.flame)))),
               ValueOf(IntFrame(StrToInt(SecondEndpoint(seq._data.flame))))}
       /\ seq._padding = Len(FirstEndpoint(seq._data.flame))

\* C21: two sequences that compare equal have the same hash, whatever their
\* padding widths, padding styles and frame lists
C21_EqualHaveEqualHash ==
  __eq__(seq, other) => __hash__(seq) = __hash__(other)

====
